---- MODULE Spec2Model ----
(***************************************************************************)
(* Operator classes of sf_deconvolve (old/psf/operators.py): GradBasic,    *)
(* GradZero, StandardPSF, StandardPSFnoGrad and PixelVariantPSF, together  *)
(* with the collaborators they import (PowerMethod from algorithms, the    *)
(* convolution primitives from convolve).                                  *)
(*                                                                         *)
(* Arrays are modelled as numpy arrays of integers: a record with a shape  *)
(* (a tuple of axis lengths) and the data (a function of index tuples).    *)
(* Integer entries make the inner products exact, so the "within numeric   *)
(* tolerance" of the adjoint identity becomes plain equality.              *)
(***************************************************************************)
EXTENDS Integers, Sequences, FiniteSets, TLC

\* ---------------------------------------------------------------- bounds
\* Side length of a 2D image (images are Side x Side).
Side == 2
\* Number of planes of a cube.
NPlanes == 2
\* Number of principal components of a pixel-variant PSF.
NComp == 2
\* Iteration cap of the power method (its max_iter).
MaxIter == 2

\* Kernels are 3 x 3 (odd-sized, with a centre tap).
KShape == <<3, 3>>
MapShape == <<Side, Side>>
CubeShape == <<NPlanes, Side, Side>>

\* ---------------------------------------------------------------- arrays
\* The attribute value of an attribute that was never assigned.
NoArray == [shape |-> <<0>>, data |-> <<>>]

\* The index tuples of an array of the given shape (1-based).
Idx(shape) ==
  CASE Len(shape) = 0 -> {<<>>}
    [] Len(shape) = 1 -> {<<i>> : i \in 1..shape[1]}
    [] Len(shape) = 2 -> (1..shape[1]) \X (1..shape[2])
    [] Len(shape) = 3 -> (1..shape[1]) \X (1..shape[2]) \X (1..shape[3])
    [] Len(shape) = 4 ->
         (1..shape[1]) \X (1..shape[2]) \X (1..shape[3]) \X (1..shape[4])

\* The array of a shape and its entries.  An array holds values, not a rule
\* for computing them: comparing the entries makes them be computed once,
\* here, and never again when the array is read.
Mk(shape, f) == IF f = f THEN [shape |-> shape, data |-> f] ELSE NoArray

\* A tuple of arrays, each computed once.
Each(f) == IF f = f THEN f ELSE <<>>

\* An array whose entry at index t is F(t).
Arr(shape, F(_)) == Mk(shape, [t \in Idx(shape) |-> F(t)])

\* np.zeros(shape)
Zeros(shape) == Arr(shape, LAMBDA t : 0)
Ones(shape) == Arr(shape, LAMBDA t : 1)

\* a[k]: the k-th sub-array along the first axis.
Sub(a, k) == Arr(Tail(a.shape), LAMBDA t : a.data[<<k>> \o t])

\* np.array([planes[1], ..., planes[n]]): stack equal-shaped arrays.
Stack(planes) ==
  LET ps == Each(planes)
  IN Arr(<<Len(ps)>> \o ps[1].shape, LAMBDA t : ps[t[1]].data[Tail(t)])

\* a - b and a * b, element-wise, on arrays of equal shape.
Minus(a, b) == Arr(a.shape, LAMBDA t : a.data[t] - b.data[t])
Times(a, b) == Arr(a.shape, LAMBDA t : a.data[t] * b.data[t])

\* f[1] + ... + f[n]
RECURSIVE SumFn(_, _)
SumFn(f, n) == IF n = 0 THEN 0 ELSE f[n] + SumFn(f, n - 1)

\* The sum of the entries of a 2D array.
Sum2(a) ==
  SumFn([i \in 1..a.shape[1] |->
           SumFn([j \in 1..a.shape[2] |-> a.data[<<i, j>>]], a.shape[2])],
        a.shape[1])

\* The sum of the entries of a 2D or 3D array.
SumAll(a) ==
  IF Len(a.shape) = 2 THEN Sum2(a)
  ELSE SumFn([p \in 1..a.shape[1] |-> Sum2(Sub(a, p))], a.shape[1])

\* <a, b> = sum of a * b
Inner(a, b) == SumAll(Times(a, b))

\* ------------------------------------------------- convolution primitives
\* x[i, j] with zero padding outside the image.
At(x, i, j) ==
  IF i >= 1 /\ i <= x.shape[1] /\ j >= 1 /\ j <= x.shape[2]
  THEN x.data[<<i, j>>] ELSE 0

\* The centre index of an odd axis length.
Centre(n) == (n + 1) \div 2

\* convolve(data, kernel): 2D convolution, output of the size of the data,
\* kernel centred on its middle tap.
convolve(x, k) ==
  Arr(x.shape, LAMBDA t :
    SumFn([a \in 1..k.shape[1] |->
             SumFn([b \in 1..k.shape[2] |->
                      k.data[<<a, b>>] *
                        At(x, t[1] + Centre(k.shape[1]) - a,
                              t[2] + Centre(k.shape[2]) - b)],
                   k.shape[2])],
          k.shape[1]))

\* rotate(kernel): the kernel reflected by 180 degrees.
rotate(k) ==
  Arr(k.shape, LAMBDA t : k.data[<<k.shape[1] + 1 - t[1], k.shape[2] + 1 - t[2]>>])

\* psf_convolve(data, psf, psf_rot, psf_type, data_format): the kernel is
\* rotated when psf_rot is set; a fixed PSF is one kernel shared by every
\* plane, an object-variant PSF is a cube with one kernel per plane; a map is
\* a single plane, a cube is convolved plane by plane.
KernelOf(psf, psf_type, p) == IF psf_type = "fixed" THEN psf ELSE Sub(psf, p)

psf_convolve(x, psf, psf_rot, psf_type, data_format) ==
  LET K(p) == IF psf_rot THEN rotate(KernelOf(psf, psf_type, p))
              ELSE KernelOf(psf, psf_type, p)
  IN IF data_format = "map" THEN convolve(x, K(1))
     ELSE Stack([p \in 1..x.shape[1] |-> convolve(Sub(x, p), K(p))])

\* pca_convolve(data, psf_pcs, psf_coef, pcs_rot) on one plane: the kernel at
\* a pixel is the coefficient-weighted sum of the components; with pcs_rot
\* the components are rotated and the weights are applied on the input side,
\* which is the transpose operation.
PcaTerm(x, psf_pcs, psf_coef, pcs_rot, c) ==
  IF pcs_rot
  THEN convolve(Times(x, Sub(psf_coef, c)), rotate(Sub(psf_pcs, c)))
  ELSE Times(convolve(x, Sub(psf_pcs, c)), Sub(psf_coef, c))

pca_convolve(x, psf_pcs, psf_coef, pcs_rot) ==
  LET terms == Each([c \in 1..psf_pcs.shape[1] |->
                       PcaTerm(x, psf_pcs, psf_coef, pcs_rot, c)])
  IN Arr(x.shape, LAMBDA t :
       SumFn([c \in 1..psf_pcs.shape[1] |-> terms[c].data[t]], psf_pcs.shape[1]))

\* The coefficient maps of plane p of a cube: psf_coef[:, p].
CoefOfPlane(psf_coef, p) ==
  Stack([c \in 1..psf_coef.shape[1] |-> Sub(Sub(psf_coef, c), p)])

\* pca_convolve_stack(data, psf_pcs, psf_coef, pcs_rot): pca_convolve on
\* every plane of a cube, each with its own coefficient maps.
pca_convolve_stack(x, psf_pcs, psf_coef, pcs_rot) ==
  Stack([p \in 1..x.shape[1] |->
           pca_convolve(Sub(x, p), psf_pcs, CoefOfPlane(psf_coef, p), pcs_rot)])

\* ------------------------------------------------------------- test data
\* Input arrays of a shape: all ones, a single 1 at the first index, and a
\* ramp whose entries differ from pixel to pixel.
Ramp(shape) ==
  Arr(shape, LAMBDA t :
    SumFn([i \in 1..Len(shape) |-> i * t[i]], Len(shape)) % 3)
Delta(shape) ==
  Arr(shape, LAMBDA t : IF \A i \in 1..Len(shape) : t[i] = 1 THEN 1 ELSE 0)
XInputs(shape) == <<Ones(shape), Delta(shape), Ramp(shape)>>
YInputs(shape) == <<Ones(shape), Ramp(shape)>>

\* Kernels: the identity (centre tap), a one-pixel shift, and a kernel with
\* no symmetry.
KIdent == Arr(KShape, LAMBDA t : IF t = <<2, 2>> THEN 1 ELSE 0)
KShift == Arr(KShape, LAMBDA t : IF t = <<2, 3>> THEN 1 ELSE 0)
KAsym == Arr(KShape, LAMBDA t : (t[1] + 2 * t[2]) % 3)
Kernels == <<KIdent, KShift, KAsym>>
KernelNo(n) == Kernels[((n - 1) % 3) + 1]

\* Object-variant PSFs for n planes, and PCA bases of NComp components.
ObjVarPsfs(n) ==
  <<Stack([p \in 1..n |-> KAsym]), Stack([p \in 1..n |-> KernelNo(p + 1)])>>
PcsInputs ==
  <<Stack([c \in 1..NComp |-> KernelNo(c)]),
    Stack([c \in 1..NComp |-> KernelNo(c + 1)])>>
CoefInputs(shape) == <<Ones(<<NComp>> \o shape), Ramp(<<NComp>> \o shape)>>

\* ---------------------------------------------------------- the classes
VARIABLES
  self,       \* the operator instance: its class and its attributes
  status,     \* "none" before construction, then "live" or "failed"
  lastCall,   \* the latest call made on the instance and its outcome
  gradArg,    \* the argument of the latest get_grad call that returned
  requested,  \* the caller has asked for the norm (get_spec_rad)
  applied,    \* times the power method has applied its operator so far
  probe       \* the arrays of an adjoint test and the results obtained

vars == <<self, status, lastCall, gradArg, requested, applied, probe>>

Classes ==
  {"GradBasic", "GradZero", "StandardPSF", "StandardPSFnoGrad",
   "PixelVariantPSF"}

\* The methods each class body defines.
Defines(c) ==
  CASE c = "GradBasic" -> {"MtMX", "get_grad"}
    [] c = "GradZero" -> {"get_grad"}
    [] c = "StandardPSF" -> {"__init__", "MX", "MtX"}
    [] c = "StandardPSFnoGrad" -> {}
    [] c = "PixelVariantPSF" -> {"__init__", "MX", "MtX"}
    [] c = "PowerMethod" -> {"__init__", "get_spec_rad"}

\* Faulty variant of MRO: the bases of StandardPSFnoGrad written the other
\* way round, class StandardPSFnoGrad(StandardPSF, GradZero), looked up
\* depth first.
MRO_bases_swapped(c) ==
  CASE c = "GradBasic" -> <<"GradBasic">>
    [] c = "GradZero" -> <<"GradZero", "GradBasic">>
    [] c = "StandardPSF" -> <<"StandardPSF", "GradBasic", "PowerMethod">>
    [] c = "StandardPSFnoGrad" ->
         <<"StandardPSFnoGrad", "StandardPSF", "GradBasic", "PowerMethod",
           "GradZero">>
    [] c = "PixelVariantPSF" -> <<"PixelVariantPSF", "GradBasic", "PowerMethod">>

\* Faulty variant of MRO: StandardPSFnoGrad derived from GradZero alone.
MRO_zero_only(c) ==
  CASE c = "GradBasic" -> <<"GradBasic">>
    [] c = "GradZero" -> <<"GradZero", "GradBasic">>
    [] c = "StandardPSF" -> <<"StandardPSF", "GradBasic", "PowerMethod">>
    [] c = "StandardPSFnoGrad" -> <<"StandardPSFnoGrad", "GradZero", "GradBasic">>
    [] c = "PixelVariantPSF" -> <<"PixelVariantPSF", "GradBasic", "PowerMethod">>

\* The method resolution order the class statements give.  For
\* StandardPSFnoGrad(GradZero, StandardPSF) the depth-first order of classic
\* classes (GradZero, GradBasic, StandardPSF, ...) resolves every method
\* below to the same class as this linearisation.
MRO(c) ==
  CASE c = "GradBasic" -> <<"GradBasic">>
    [] c = "GradZero" -> <<"GradZero", "GradBasic">>
    [] c = "StandardPSF" -> <<"StandardPSF", "GradBasic", "PowerMethod">>
    [] c = "StandardPSFnoGrad" ->
         <<"StandardPSFnoGrad", "GradZero", "StandardPSF", "GradBasic",
           "PowerMethod">>
    [] c = "PixelVariantPSF" -> <<"PixelVariantPSF", "GradBasic", "PowerMethod">>

\* The class whose definition of method m an instance of c runs; "" when no
\* class of the order defines it (the attribute lookup fails).
Resolve(c, m) ==
  LET hits == {i \in 1..Len(MRO(c)) : m \in Defines(MRO(c)[i])}
  IN IF hits = {} THEN ""
     ELSE MRO(c)[CHOOSE i \in hits : \A j \in hits : i <= j]

\* A fresh instance of class c: no attribute is set.
NewInstance(c) ==
  [cls |-> c, attrs |-> {}, y |-> NoArray, psf |-> NoArray,
   psf_pcs |-> NoArray, psf_coef |-> NoArray, psf_type |-> "",
   data_format |-> "", grad |-> NoArray, op |-> "", data_shape |-> <<>>,
   spec_rad |-> 0]

\* The outcome of running a method: the instance and the argument as the
\* method leaves them, the value returned, the calls made to collaborators
\* (convolution primitives, PowerMethod), the exception raised ("" when the
\* method returns), and the number of operator applications the power
\* method made meanwhile.
Return(s, x, ret, calls, n) ==
  [self |-> s, x |-> x, ret |-> ret, calls |-> calls, raised |-> "", applied |-> n]
Raise(s, x, err, calls, n) ==
  [self |-> s, x |-> x, ret |-> NoArray, calls |-> calls, raised |-> err, applied |-> n]

PsfCall(fn, x, s, rot) ==
  [fn |-> fn, x |-> x, psf |-> s.psf, psf_rot |-> rot, psf_type |-> s.psf_type,
   data_format |-> s.data_format]
PcaCall(fn, x, s, rot) ==
  [fn |-> fn, x |-> x, psf_pcs |-> s.psf_pcs, psf_coef |-> s.psf_coef, pcs_rot |-> rot]

RECURSIVE Invoke(_, _, _)

\* The outcome of a call a made after a call f within one method: the
\* caller's argument and the calls of both.
Chain(f, a) == [a EXCEPT !.x = f.x, !.calls = f.calls \o a.calls]

\* GradBasic.MtMX: return self.MtX(self.MX(x)); f is the outcome of self.MX(x).
MtMX_MtX(f) ==
  IF f.raised # "" THEN f ELSE Chain(f, Invoke(f.self, "MtX", f.ret))

\* Faulty variant of GradBasic.MtMX: return self.MX(self.MtX(x)).
GradBasic_MtMX_swapped(s, x) ==
  Chain(Invoke(s, "MtX", x), Invoke(s, "MX", Invoke(s, "MtX", x).ret))

GradBasic_MtMX(s, x) == MtMX_MtX(Invoke(s, "MX", x))

\* GradBasic.get_grad: self.grad = self.MtX(self.MX(x) - self.y); f is the
\* outcome of self.MX(x), a that of self.MtX(...).
\* Faulty variant of get_grad: the result assigned to self.y.
get_grad_store_in_y(a) ==
  IF a.raised # "" THEN a
  ELSE [a EXCEPT !.self.y = a.ret, !.ret = NoArray]

get_grad_store(a) ==
  IF a.raised # "" THEN a
  ELSE [a EXCEPT !.self.grad = a.ret, !.self.attrs = @ \cup {"grad"},
                 !.ret = NoArray]

\* Faulty variant of get_grad: self.grad = self.MtX(self.MX(x)), the data
\* forgotten.
get_grad_MtX_no_data(f) ==
  IF f.raised # "" THEN f
  ELSE get_grad_store(Chain(f, Invoke(f.self, "MtX", f.ret)))

get_grad_MtX(f) ==
  IF f.raised # "" THEN f
  ELSE IF "y" \notin f.self.attrs
  THEN Raise(f.self, f.x, "AttributeError", f.calls, 0)
  ELSE get_grad_store(Chain(f, Invoke(f.self, "MtX", Minus(f.ret, f.self.y))))

GradBasic_get_grad(s, x) == get_grad_MtX(Invoke(s, "MX", x))

\* GradZero.get_grad: self.grad = np.zeros(x.shape)
GradZero_get_grad(s, x) ==
  Return([s EXCEPT !.grad = Zeros(x.shape), !.attrs = @ \cup {"grad"}],
         x, NoArray, <<>>, 0)

\* StandardPSF.MX
StandardPSF_MX(s, x) ==
  Return(s, x, psf_convolve(x, s.psf, FALSE, s.psf_type, s.data_format),
         <<PsfCall("psf_convolve", x, s, FALSE)>>, 0)

\* Faulty variant of StandardPSF.MtX: psf_rot=False.
StandardPSF_MtX_unrotated(s, x) ==
  Return(s, x, psf_convolve(x, s.psf, FALSE, s.psf_type, s.data_format),
         <<PsfCall("psf_convolve", x, s, FALSE)>>, 0)

\* StandardPSF.MtX
StandardPSF_MtX(s, x) ==
  Return(s, x, psf_convolve(x, s.psf, TRUE, s.psf_type, s.data_format),
         <<PsfCall("psf_convolve", x, s, TRUE)>>, 0)

\* PixelVariantPSF.MX
PixelVariantPSF_MX(s, x) ==
  IF s.data_format = "map"
  THEN Return(s, x, pca_convolve(x, s.psf_pcs, s.psf_coef, FALSE),
              <<PcaCall("pca_convolve", x, s, FALSE)>>, 0)
  ELSE Return(s, x, pca_convolve_stack(x, s.psf_pcs, s.psf_coef, FALSE),
              <<PcaCall("pca_convolve_stack", x, s, FALSE)>>, 0)

\* Faulty variant of PixelVariantPSF.MtX: pcs_rot=False.
PixelVariantPSF_MtX_unrotated(s, x) ==
  IF s.data_format = "map"
  THEN Return(s, x, pca_convolve(x, s.psf_pcs, s.psf_coef, FALSE),
              <<PcaCall("pca_convolve", x, s, FALSE)>>, 0)
  ELSE Return(s, x, pca_convolve_stack(x, s.psf_pcs, s.psf_coef, FALSE),
              <<PcaCall("pca_convolve_stack", x, s, FALSE)>>, 0)

\* PixelVariantPSF.MtX
PixelVariantPSF_MtX(s, x) ==
  IF s.data_format = "map"
  THEN Return(s, x, pca_convolve(x, s.psf_pcs, s.psf_coef, TRUE),
              <<PcaCall("pca_convolve", x, s, TRUE)>>, 0)
  ELSE Return(s, x, pca_convolve_stack(x, s.psf_pcs, s.psf_coef, TRUE),
              <<PcaCall("pca_convolve_stack", x, s, TRUE)>>, 0)

\* self.m(x): look the method up along the class's resolution order and run
\* it; a method no class defines raises AttributeError.
Invoke(s, m, x) ==
  LET c == Resolve(s.cls, m)
  IN CASE c = "" -> Raise(s, x, "AttributeError", <<>>, 0)
       [] c = "GradBasic" /\ m = "MtMX" -> GradBasic_MtMX(s, x)
       [] c = "GradBasic" /\ m = "get_grad" -> GradBasic_get_grad(s, x)
       [] c = "GradZero" /\ m = "get_grad" -> GradZero_get_grad(s, x)
       [] c = "StandardPSF" /\ m = "MX" -> StandardPSF_MX(s, x)
       [] c = "StandardPSF" /\ m = "MtX" -> StandardPSF_MtX(s, x)
       [] c = "PixelVariantPSF" /\ m = "MX" -> PixelVariantPSF_MX(s, x)
       [] c = "PixelVariantPSF" /\ m = "MtX" -> PixelVariantPSF_MtX(s, x)

\* -------------------------------------------------------- PowerMethod
Abs(n) == IF n < 0 THEN -n ELSE n

\* norm(x), kept in the integers: the sum of the absolute entries.
Norm(x) == SumAll(Arr(x.shape, LAMBDA t : Abs(x.data[t])))

\* x / n, entry by entry, kept in the integers.
DivBy(x, n) == Arr(x.shape, LAMBDA t : x.data[t] \div n)

\* The random draws of an initial vector the model follows.
Seeds == {1, 2}

\* PowerMethod.set_initial_x: a random array of the registered shape.
set_initial_x(s, rnd) == XInputs(s.data_shape)[rnd]

\* The loop of get_spec_rad from iteration i on: x_new = op(x_old) /
\* norm(x_old), left when the norm no longer changes or after MaxIter
\* iterations.  Gives the last x_new, the number of applications of the
\* operator and the exception an application raised.
RECURSIVE PowerLoop(_, _, _)

PowerNext(s, x_old, i, x_new) ==
  IF Norm(x_new) = Norm(x_old) \/ i >= MaxIter
  THEN [x |-> x_new, n |-> i, raised |-> ""]
  ELSE PowerLoop(s, x_new, i + 1)

PowerStep(s, x_old, i, o) ==
  IF o.raised # "" THEN [x |-> x_old, n |-> i, raised |-> o.raised]
  ELSE PowerNext(s, x_old, i,
                 IF Norm(x_old) = 0 THEN o.ret ELSE DivBy(o.ret, Norm(x_old)))

PowerLoop(s, x_old, i) == PowerStep(s, x_old, i, Invoke(s, s.op, x_old))

\* PowerMethod.get_spec_rad: power iteration from a random initial vector,
\* storing the norm reached in spec_rad; r is the outcome of the loop.
get_spec_rad_store(s, x0, r) ==
  IF r.raised # "" THEN Raise(s, x0, r.raised, <<>>, r.n)
  ELSE Return([s EXCEPT !.spec_rad = Norm(r.x), !.attrs = @ \cup {"spec_rad"}],
              x0, NoArray, <<>>, r.n)

PowerMethod_get_spec_rad(s, rnd) ==
  get_spec_rad_store(s, set_initial_x(s, rnd), PowerLoop(s, set_initial_x(s, rnd), 1))

\* PowerMethod.__init__(operator, data_shape, auto_run): keeps the operator
\* and the shape, and runs get_spec_rad at once only when auto_run is set;
\* rnd is the random draw of the initial vector.
PowerMethod_init_run(s1, auto_run, rnd, call) ==
  IF auto_run
  THEN [PowerMethod_get_spec_rad(s1, rnd) EXCEPT !.calls = <<call>>, !.x = NoArray]
  ELSE Return(s1, NoArray, NoArray, <<call>>, 0)

PowerMethod_init(s, operator, data_shape, auto_run, rnd) ==
  PowerMethod_init_run(
    [s EXCEPT !.op = operator, !.data_shape = data_shape,
              !.attrs = @ \cup {"op", "data_shape"}],
    auto_run, rnd,
    [fn |-> "PowerMethod.__init__", operator |-> operator,
     data_shape |-> data_shape, auto_run |-> auto_run])

\* ------------------------------------------------------- constructors
\* Faulty variant of StandardPSF.__init__: the data format is not validated.
StandardPSF_init_any_format(s, a, rnd) ==
  LET s1 == [s EXCEPT !.y = a.data, !.psf = a.psf, !.attrs = @ \cup {"y", "psf"}]
      s3 == [s1 EXCEPT !.psf_type = a.psf_type, !.data_format = a.data_format,
                       !.attrs = @ \cup {"psf_type", "data_format"}]
  IN IF a.psf_type \notin {"fixed", "obj_var"}
     THEN Raise(s1, NoArray, "ValueError: Invalid PSF type", <<>>, 0)
     ELSE PowerMethod_init(s3, "MtMX", s3.y.shape, FALSE, rnd)

\* Faulty variant of StandardPSF.__init__: auto_run left at its default.
StandardPSF_init_auto_run(s, a, rnd) ==
  LET s1 == [s EXCEPT !.y = a.data, !.psf = a.psf, !.attrs = @ \cup {"y", "psf"}]
      s3 == [s1 EXCEPT !.psf_type = a.psf_type, !.data_format = a.data_format,
                       !.attrs = @ \cup {"psf_type", "data_format"}]
  IN IF a.psf_type \notin {"fixed", "obj_var"}
     THEN Raise(s1, NoArray, "ValueError: Invalid PSF type", <<>>, 0)
     ELSE IF a.data_format \notin {"map", "cube"}
     THEN Raise([s1 EXCEPT !.psf_type = a.psf_type, !.attrs = @ \cup {"psf_type"}],
                NoArray, "ValueError: Invalid data type", <<>>, 0)
     ELSE PowerMethod_init(s3, "MtMX", s3.y.shape, TRUE, rnd)

\* StandardPSF.__init__(data, psf, psf_type, data_format)
StandardPSF_init(s, a, rnd) ==
  LET s1 == [s EXCEPT !.y = a.data, !.psf = a.psf, !.attrs = @ \cup {"y", "psf"}]
      s2 == [s1 EXCEPT !.psf_type = a.psf_type, !.attrs = @ \cup {"psf_type"}]
      s3 == [s2 EXCEPT !.data_format = a.data_format,
                       !.attrs = @ \cup {"data_format"}]
  IN IF a.psf_type \notin {"fixed", "obj_var"}
     THEN Raise(s1, NoArray, "ValueError: Invalid PSF type", <<>>, 0)
     ELSE IF a.data_format \notin {"map", "cube"}
     THEN Raise(s2, NoArray, "ValueError: Invalid data type", <<>>, 0)
     ELSE PowerMethod_init(s3, "MtMX", s3.y.shape, FALSE, rnd)

\* Faulty variant of PixelVariantPSF.__init__: the whole shape of the
\* coefficient array is registered (psf_coef.shape for psf_coef.shape[1:]).
PixelVariantPSF_init_full_shape(s, a, rnd) ==
  LET s1 == [s EXCEPT !.y = a.data, !.psf_pcs = a.psf_pcs,
                      !.psf_coef = a.psf_coef,
                      !.attrs = @ \cup {"y", "psf_pcs", "psf_coef"}]
      s2 == [s1 EXCEPT !.data_format = a.data_format,
                       !.attrs = @ \cup {"data_format"}]
  IN IF a.data_format \notin {"map", "cube"}
     THEN Raise(s1, NoArray, "ValueError: Invalid data type", <<>>, 0)
     ELSE PowerMethod_init(s2, "MtMX", s2.psf_coef.shape, FALSE, rnd)

\* PixelVariantPSF.__init__(data, psf_pcs, psf_coef, data_format)
PixelVariantPSF_init(s, a, rnd) ==
  LET s1 == [s EXCEPT !.y = a.data, !.psf_pcs = a.psf_pcs,
                      !.psf_coef = a.psf_coef,
                      !.attrs = @ \cup {"y", "psf_pcs", "psf_coef"}]
      s2 == [s1 EXCEPT !.data_format = a.data_format,
                       !.attrs = @ \cup {"data_format"}]
  IN IF a.data_format \notin {"map", "cube"}
     THEN Raise(s1, NoArray, "ValueError: Invalid data type", <<>>, 0)
     ELSE PowerMethod_init(s2, "MtMX", Tail(s2.psf_coef.shape), FALSE, rnd)

\* c(...): a new instance of class c, initialised by the __init__ its
\* resolution order gives (GradBasic and GradZero define none).
New(c, a, rnd) ==
  LET k == Resolve(c, "__init__")
  IN CASE k = "" -> Return(NewInstance(c), NoArray, NoArray, <<>>, 0)
       [] k = "StandardPSF" -> StandardPSF_init(NewInstance(c), a, rnd)
       [] k = "PixelVariantPSF" -> PixelVariantPSF_init(NewInstance(c), a, rnd)

\* ------------------------------------------------- constructor arguments
Tags(valid) == valid \cup {"bogus"}
Range(seq) == {seq[i] : i \in 1..Len(seq)}
DataShape(data_format) == IF data_format = "cube" THEN CubeShape ELSE MapShape
PlanesOf(data_format) == IF data_format = "cube" THEN NPlanes ELSE 1
NoArgs ==
  [data |-> NoArray, psf |-> NoArray, psf_pcs |-> NoArray, psf_coef |-> NoArray,
   psf_type |-> "", data_format |-> ""]

\* The inputs come as two data sets: the all-ones observation with the shift
\* kernel (or the first object-variant cube, the first basis and uniform
\* coefficients), and the ramp observation with the asymmetric kernel (or
\* the second cube, the second basis and spatially varying coefficients).
Datasets == {1, 2}
FixedPsfs == <<KShift, KAsym>>

StandardArgs ==
  {[NoArgs EXCEPT !.data = YInputs(DataShape(df))[i],
                  !.psf = IF pt = "obj_var" THEN ObjVarPsfs(PlanesOf(df))[i]
                          ELSE FixedPsfs[i],
                  !.psf_type = pt, !.data_format = df] :
     pt \in Tags({"fixed", "obj_var"}), df \in Tags({"map", "cube"}),
     i \in Datasets}

PixelArgs ==
  {[NoArgs EXCEPT !.data = YInputs(DataShape(df))[i],
                  !.psf_pcs = PcsInputs[i],
                  !.psf_coef = CoefInputs(DataShape(df))[i],
                  !.data_format = df] :
     df \in Tags({"map", "cube"}), i \in Datasets}

CtorArgs(c) ==
  CASE c \in {"StandardPSF", "StandardPSFnoGrad"} -> StandardArgs
    [] c = "PixelVariantPSF" -> PixelArgs
    [] OTHER -> {NoArgs}

\* The arrays a caller passes to the instance's methods: data-shaped, or of
\* either shape for an instance that holds no data.
CallInputs(s) ==
  IF "y" \in s.attrs THEN Range(XInputs(s.y.shape))
  ELSE Range(XInputs(MapShape)) \cup Range(XInputs(CubeShape))

\* ---------------------------------------------------------------- actions
NoProbe ==
  [x |-> NoArray, y |-> NoArray, fx |-> NoArray, aty |-> NoArray,
   fdone |-> FALSE, adone |-> FALSE]

CallRecord(m, args, x, o) ==
  [m |-> m, args |-> args, x |-> x, xAfter |-> o.x, ret |-> o.ret,
   calls |-> o.calls, raised |-> o.raised]

Init ==
  /\ self = NewInstance("GradBasic")
  /\ status = "none"
  /\ lastCall = CallRecord("", NoArgs, NoArray,
                           Return(NewInstance("GradBasic"), NoArray, NoArray, <<>>, 0))
  /\ gradArg = NoArray
  /\ requested = FALSE
  /\ applied = 0
  /\ probe = NoProbe

Capped(n) == IF n > MaxIter THEN MaxIter ELSE n

\* The caller constructs the operator: c(a); o is the outcome.
Constructed(a, o) ==
  /\ self' = o.self
  /\ status' = IF o.raised = "" THEN "live" ELSE "failed"
  /\ lastCall' = CallRecord("__init__", a, NoArray, o)
  /\ applied' = Capped(applied + o.applied)
  /\ UNCHANGED <<gradArg, requested, probe>>

Construct ==
  /\ status = "none"
  /\ \E c \in Classes : \E a \in CtorArgs(c) : \E rnd \in Seeds :
       Constructed(a, New(c, a, rnd))

\* The caller calls method m of the gradient-operator interface with x; o is
\* the outcome.
Called(m, x, o) ==
  /\ self' = o.self
  /\ lastCall' = CallRecord(m, NoArgs, x, o)
  /\ gradArg' = IF m = "get_grad" /\ o.raised = "" THEN x ELSE gradArg
  /\ UNCHANGED <<status, requested, applied, probe>>

Call(m) ==
  /\ status = "live"
  /\ \E x \in CallInputs(self) : Called(m, x, Invoke(self, m, x))

CallMX == Call("MX")
CallMtX == Call("MtX")
CallMtMX == Call("MtMX")
CallGetGrad == Call("get_grad")

\* The caller asks for the norm; the initial vector is random.
SpecRadCalled(o) ==
  /\ self' = o.self
  /\ lastCall' = CallRecord("get_spec_rad", NoArgs, o.x, o)
  /\ applied' = Capped(applied + o.applied)
  /\ requested' = TRUE
  /\ UNCHANGED <<status, gradArg, probe>>

CallGetSpecRad ==
  /\ status = "live"
  /\ "op" \in self.attrs
  /\ \E rnd \in Seeds : SpecRadCalled(PowerMethod_get_spec_rad(self, rnd))

Next ==
  \/ Construct
  \/ CallMX
  \/ CallMtX
  \/ CallMtMX
  \/ CallGetGrad
  \/ CallGetSpecRad

Spec == Init /\ [][Next]_vars

\* ------------------------------------------------------ the adjoint test
\* A constructed operator of a data-fidelity variant, with an input-shaped x
\* and an observation-shaped y to test the adjoint identity on.
AdjointClasses == {"StandardPSF", "StandardPSFnoGrad", "PixelVariantPSF"}

ProbeStart(a, o, x, y) ==
  /\ o.raised = ""
  /\ self = o.self
  /\ status = "live"
  /\ lastCall = CallRecord("__init__", a, NoArray, o)
  /\ gradArg = NoArray
  /\ requested = FALSE
  /\ applied = 0
  /\ probe = [NoProbe EXCEPT !.x = x, !.y = y]

InitAdj ==
  \E c \in AdjointClasses : \E a \in CtorArgs(c) :
    \E x \in Range(XInputs(DataShape(a.data_format))) :
      \E y \in Range(XInputs(DataShape(a.data_format))) :
        ProbeStart(a, New(c, a, 1), x, y)

\* The test applies forward to x ...
ProbeForward ==
  /\ ~probe.fdone
  /\ probe' = [probe EXCEPT !.fx = Invoke(self, "MX", probe.x).ret, !.fdone = TRUE]
  /\ UNCHANGED <<self, status, lastCall, gradArg, requested, applied>>

\* ... and adjoint to y.
ProbeAdjoint ==
  /\ ~probe.adone
  /\ probe' = [probe EXCEPT !.aty = Invoke(self, "MtX", probe.y).ret, !.adone = TRUE]
  /\ UNCHANGED <<self, status, lastCall, gradArg, requested, applied>>

NextAdj == ProbeForward \/ ProbeAdjoint

SpecAdj == InitAdj /\ [][NextAdj]_vars

\* ------------------------------------------------------------ the claims
ValidPsfTypes == {"fixed", "obj_var"}
ValidFormats == {"map", "cube"}
StandardClasses == {"StandardPSF", "StandardPSFnoGrad"}
InvalidConfiguration ==
  {"ValueError: Invalid PSF type", "ValueError: Invalid data type"}

\* The call PowerMethod.__init__(self, self.MtMX, shape, auto_run=False).
Registration(shape) ==
  [fn |-> "PowerMethod.__init__", operator |-> "MtMX", data_shape |-> shape,
   auto_run |-> FALSE]

\* The two trailing axes of a shape.
Spatial(shape) == SubSeq(shape, Len(shape) - 1, Len(shape))

\* C1: constructing StandardPSF with a PSF type outside {fixed, obj_var} or
\* a data format outside {map, cube}, or PixelVariantPSF with a data format
\* outside {map, cube}, raises the invalid-configuration error before any
\* registration with the power method; with valid tags construction
\* succeeds.
ConstructionValidation ==
  lastCall.m = "__init__" /\ self.cls \in AdjointClasses =>
    LET bad == \/ self.cls \in StandardClasses /\ lastCall.args.psf_type \notin ValidPsfTypes
               \/ lastCall.args.data_format \notin ValidFormats
    IN IF bad
       THEN /\ lastCall.raised \in InvalidConfiguration
            /\ status = "failed"
            /\ lastCall.calls = <<>>
            /\ "op" \notin self.attrs
            /\ applied = 0
       ELSE lastCall.raised = "" /\ status = "live"

\* A StandardPSF construction with a valid PSF type and a bogus data format
\* has failed.
ConstructionRejected ==
  /\ status = "failed"
  /\ self.cls = "StandardPSF"
  /\ lastCall.args.psf_type = "fixed"
  /\ lastCall.args.data_format = "bogus"

\* C2: <forward(x), y> = <x, adjoint(y)> for every operator variant and both
\* data formats.
AdjointIdentity ==
  probe.fdone /\ probe.adone =>
    Inner(probe.fx, probe.y) = Inner(probe.x, probe.aty)

\* Both sides of the identity were computed on a pixel-variant cube operator
\* with spatially varying coefficients, and are not zero.
AdjointTested ==
  /\ probe.fdone /\ probe.adone
  /\ self.cls = "PixelVariantPSF" /\ self.data_format = "cube"
  /\ self.psf_coef = Ramp(self.psf_coef.shape)
  /\ Inner(probe.fx, probe.y) > 0
  /\ probe.fx # probe.aty

\* C3: composed(x) returns the value of adjoint(forward(x)) computed with the
\* instance's own MX and MtX, and every variant runs GradBasic's MtMX.
CompositionConsistency ==
  status = "live" /\ self.cls \in AdjointClasses =>
    /\ Resolve(self.cls, "MtMX") = "GradBasic"
    /\ lastCall.m = "MtMX" =>
         /\ lastCall.raised = ""
         /\ lastCall.ret =
              Invoke(self, "MtX", Invoke(self, "MX", lastCall.x).ret).ret

\* MtMX has returned on a PixelVariantPSF and changed its argument.
ComposedCalled ==
  /\ lastCall.m = "MtMX" /\ lastCall.raised = ""
  /\ self.cls = "PixelVariantPSF"
  /\ lastCall.ret # lastCall.x

\* C4: for StandardPSF and PixelVariantPSF, after any sequence of calls the
\* stored gradient is adjoint(forward(x) - y) for the x of the latest
\* get_grad call.
GradientFormula ==
  status = "live" /\ self.cls \in {"StandardPSF", "PixelVariantPSF"}
    /\ gradArg # NoArray =>
      self.grad =
        Invoke(self, "MtX", Minus(Invoke(self, "MX", gradArg).ret, self.y)).ret

\* A PixelVariantPSF holds a non-zero gradient and MtMX was called after
\* get_grad.
GradientKept ==
  /\ self.cls = "PixelVariantPSF"
  /\ gradArg # NoArray
  /\ lastCall.m = "MtMX"
  /\ self.grad # Zeros(self.grad.shape)

InterfaceCalls == {"MX", "MtX", "MtMX", "get_grad"}

\* C6 as stated: forward, adjoint, composed and gradient can each be called
\* on a GradZero without raising an error.
GradZeroSubstitutable ==
  self.cls \in {"GradZero", "StandardPSFnoGrad"} /\ lastCall.m \in InterfaceCalls =>
    lastCall.raised = ""

\* C6, amended: the four calls return on StandardPSFnoGrad, which takes MX
\* and MtX from StandardPSF; on a GradZero alone get_grad returns and MX, MtX
\* and MtMX raise AttributeError.
ZeroGradientInterface ==
  /\ self.cls = "StandardPSFnoGrad" /\ lastCall.m \in InterfaceCalls =>
       lastCall.raised = ""
  /\ self.cls = "GradZero" /\ lastCall.m \in InterfaceCalls =>
       lastCall.raised = IF lastCall.m = "get_grad" THEN "" ELSE "AttributeError"

\* MtMX has returned on a StandardPSFnoGrad after a get_grad.
NoGradComposed ==
  /\ self.cls = "StandardPSFnoGrad"
  /\ lastCall.m = "MtMX"
  /\ lastCall.raised = ""
  /\ "grad" \in self.attrs

\* C7: a successful StandardPSF construction registers MtMX and the shape of
\* the data with the power method, auto_run disabled, and computes no norm;
\* the power method applies the composed map only once the norm has been
\* requested.
LazyNorm ==
  self.cls \in StandardClasses =>
    /\ lastCall.m = "__init__" /\ lastCall.raised = "" =>
         /\ lastCall.calls = <<Registration(self.y.shape)>>
         /\ self.op = "MtMX"
         /\ self.data_shape = self.y.shape
         /\ "spec_rad" \notin self.attrs
    /\ applied > 0 => requested
    /\ "spec_rad" \in self.attrs => requested

\* The norm of a StandardPSF was requested and computed.
NormRequested ==
  /\ self.cls = "StandardPSF"
  /\ requested
  /\ applied > 0
  /\ "spec_rad" \in self.attrs

\* The instance with nothing but its kernel data and tags: the data, the
\* stored gradient and the cached norm removed.
KernelDataOnly(s) ==
  [s EXCEPT !.y = NoArray, !.grad = NoArray, !.spec_rad = 0,
            !.attrs = @ \ {"y", "grad", "spec_rad"}]

\* A step made by the call that lastCall' records.
FrameStep ==
  /\ lastCall'.m \in {"MX", "MtX", "MtMX"} =>
       /\ self' = self
       /\ lastCall'.xAfter = lastCall'.x
       /\ lastCall'.ret = Invoke(KernelDataOnly(self), lastCall'.m, lastCall'.x).ret
  /\ lastCall'.m = "get_grad" =>
       /\ [self' EXCEPT !.grad = NoArray, !.attrs = @ \ {"grad"}]
            = [self EXCEPT !.grad = NoArray, !.attrs = @ \ {"grad"}]
       /\ lastCall'.xAfter = lastCall'.x

\* C8: MX, MtX and MtMX leave every field of the operator and their argument
\* unchanged and return a value that depends on the argument and the bound
\* kernel data alone; get_grad changes the stored gradient and nothing else.
Frame == [][FrameStep]_vars

\* MX was called on an operator holding a non-zero gradient and a norm.
FrameExercised ==
  /\ lastCall.m = "MX" /\ lastCall.raised = ""
  /\ "grad" \in self.attrs
  /\ self.grad # Zeros(self.grad.shape)
  /\ "spec_rad" \in self.attrs

\* The primitive an operator is to call, the call with its arguments, and
\* the value the primitive gives when called directly.
PrimitiveOf(s) ==
  IF s.cls \in StandardClasses THEN "psf_convolve"
  ELSE IF s.data_format = "map" THEN "pca_convolve" ELSE "pca_convolve_stack"

PrimitiveCall(s, x, rot) ==
  IF s.cls \in StandardClasses THEN PsfCall(PrimitiveOf(s), x, s, rot)
  ELSE PcaCall(PrimitiveOf(s), x, s, rot)

PrimitiveResult(s, x, rot) ==
  CASE PrimitiveOf(s) = "psf_convolve" ->
         psf_convolve(x, s.psf, rot, s.psf_type, s.data_format)
    [] PrimitiveOf(s) = "pca_convolve" ->
         pca_convolve(x, s.psf_pcs, s.psf_coef, rot)
    [] PrimitiveOf(s) = "pca_convolve_stack" ->
         pca_convolve_stack(x, s.psf_pcs, s.psf_coef, rot)

\* C9: MX calls the convolution primitive with the rotation flag false and
\* MtX with the flag true, on the bound kernel data and the validated tags:
\* psf_convolve for StandardPSF, pca_convolve (map) or pca_convolve_stack
\* (cube) for PixelVariantPSF; the result is the primitive's.
PrimitiveConsistency ==
  status = "live" /\ self.cls \in AdjointClasses /\ lastCall.m \in {"MX", "MtX"} =>
    /\ lastCall.raised = ""
    /\ self.data_format \in ValidFormats
    /\ self.cls \in StandardClasses => self.psf_type \in ValidPsfTypes
    /\ lastCall.calls = <<PrimitiveCall(self, lastCall.x, lastCall.m = "MtX")>>
    /\ lastCall.ret = PrimitiveResult(self, lastCall.x, lastCall.m = "MtX")

\* MtX has returned on a PixelVariantPSF for a cube.
AdjointCalled ==
  /\ self.cls = "PixelVariantPSF" /\ self.data_format = "cube"
  /\ lastCall.m = "MtX" /\ lastCall.raised = ""
  /\ lastCall.calls[1].fn = "pca_convolve_stack"

\* C10 as stated: for both data formats PixelVariantPSF registers the
\* spatial shape of the coefficient array, which is the spatial shape of the
\* data, with the composed map and auto_run disabled.
PixelRegistersSpatialShape ==
  self.cls = "PixelVariantPSF" /\ lastCall.m = "__init__" /\ lastCall.raised = "" =>
    /\ lastCall.calls = <<Registration(Spatial(self.psf_coef.shape))>>
    /\ Spatial(self.psf_coef.shape) = Spatial(self.y.shape)

\* C10, amended: PixelVariantPSF registers the shape of the coefficient array
\* without its first axis, with the composed map and auto_run disabled; for a
\* map that is the spatial shape of the coefficients and of the data, for a
\* cube it keeps the axes after the first and is not the spatial shape.
PixelRegistersTailShape ==
  self.cls = "PixelVariantPSF" /\ lastCall.m = "__init__" /\ lastCall.raised = "" =>
    /\ lastCall.calls = <<Registration(Tail(self.psf_coef.shape))>>
    /\ self.op = "MtMX"
    /\ self.data_shape = Tail(self.psf_coef.shape)
    /\ "spec_rad" \notin self.attrs
    /\ Spatial(self.psf_coef.shape) = Spatial(self.y.shape)
    /\ self.data_format = "map" =>
         /\ self.data_shape = Spatial(self.psf_coef.shape)
         /\ self.data_shape = self.y.shape
    /\ self.data_format = "cube" =>
         /\ Len(self.data_shape) = Len(self.psf_coef.shape) - 1
         /\ self.data_shape # Spatial(self.psf_coef.shape)

\* A PixelVariantPSF for a cube was constructed.
PixelCubeConstructed ==
  /\ self.cls = "PixelVariantPSF"
  /\ status = "live"
  /\ lastCall.m = "__init__"
  /\ self.data_format = "cube"

====
